---- MODULE Spec2Model ----
(***************************************************************************)
(* A model of src/utils/sourceMap.ts (class SourceMapUtil).                *)
(*                                                                         *)
(* Text is modelled character by character: a string is a sequence of      *)
(* one-character strings.  A value that may be null/undefined is a record  *)
(* [some, v].  A call's outcome is a record [threw, v].                    *)
(***************************************************************************)
EXTENDS Integers, Sequences, FiniteSets, TLC

VARIABLES
    pc,               \* position of the calling context
    platform,         \* "posix" or "win32": selects path.sep / path.relative
    cwd,              \* process.cwd(), read by path.relative
    scriptBody,       \* argument scriptBody ([some, v])
    scriptUrl,        \* argument scriptUrl (a url.Url record)
    sourceMappingUrl, \* argument sourceMappingUrl: its pathname ([some, v])
    located,          \* result of getSourceMapRelativeUrl(scriptBody)
    rewritten,        \* outcome of updateScriptPaths
    relocated,        \* result of getSourceMapRelativeUrl(rewritten.v)
    resultUrl,        \* outcome of getSourceMapURL
    sourceMapBody,    \* argument sourceMapBody
    scriptPath,       \* argument scriptPath
    sourcesRootPath,  \* argument sourcesRootPath
    normalized,       \* outcome of updateSourceMapFile(sourceMapBody, ...)
    renormalized      \* outcome of updateSourceMapFile(normalized.v, ...)

vars == <<pc, platform, cwd, scriptBody, scriptUrl, sourceMappingUrl, located,
          rewritten, relocated, resultUrl, sourceMapBody, scriptPath,
          sourcesRootPath, normalized, renormalized>>

----------------------------------------------------------------------------
(* Bounds of the model *)

\* a script body has at most MaxLines lines
MaxLines == 2
\* a source-map document lists at most MaxSources sources
MaxSources == 2

----------------------------------------------------------------------------
(* Generic helpers on strings *)

Some(x) == [some |-> TRUE, v |-> x]
None == [some |-> FALSE, v |-> <<>>]

Returned(x) == [threw |-> FALSE, v |-> x]
Threw == [threw |-> TRUE, v |-> <<>>]

Min(S) == CHOOSE x \in S : \A y \in S : x <= y
Max(S) == CHOOSE x \in S : \A y \in S : x >= y

\* s.substring(a - 1, b) in 1-based inclusive positions: b is clamped to the
\* length, and the result is empty when nothing lies between
Slice(s, a, b) ==
    LET hi == IF b > Len(s) THEN Len(s) ELSE b
    IN  IF hi < a THEN <<>> ELSE SubSeq(s, a, hi)

RECURSIVE JoinWith(_, _)
JoinWith(ss, sep) ==
    IF ss = <<>> THEN <<>>
    ELSE IF Len(ss) = 1 THEN Head(ss)
    ELSE Head(ss) \o sep \o JoinWith(Tail(ss), sep)

----------------------------------------------------------------------------
(* SourceMapURLRegex = /\/\/(#|@) sourceMappingURL=(.+?)\s*$/m *)

\* what `.` does not match, and where `$` matches under the m flag
LineTerminator == {"\n", "\r"}
\* what `\s` matches
WhiteSpace == {" ", "\t", "\n", "\r"}

\* the literal " sourceMappingURL=" that follows (#|@)
Keyword == <<" ", "s", "o", "u", "r", "c", "e", "M", "a", "p", "p", "i", "n",
             "g", "U", "R", "L", "=">>

NoMatch == [found |-> FALSE, index |-> 0, end |-> 0, g1 |-> <<>>, g2 |-> <<>>]

\* `$` with the m flag at position j (the next character to read)
AtLineEnd(s, j) == j = Len(s) + 1 \/ (j <= Len(s) /\ s[j] \in LineTerminator)

\* \/\/(#|@) sourceMappingURL= matched at i
HeadAt(s, i) ==
    /\ i + 20 <= Len(s)
    /\ s[i] = "/"
    /\ s[i + 1] = "/"
    /\ s[i + 2] \in {"#", "@"}
    /\ SubSeq(s, i + 3, i + 20) = Keyword

\* \s*$ read from p: the positions where it can end
TailEnds(s, p) ==
    { j \in p..(Len(s) + 1) :
        /\ \A q \in p..(j - 1) : s[q] \in WhiteSpace
        /\ AtLineEnd(s, j) }

\* (.+?) read from v: the lengths it can take for the rest to match
ValueLens(s, v) ==
    { k \in 1..(Len(s) - v + 1) :
        /\ \A q \in v..(v + k - 1) : s[q] \notin LineTerminator
        /\ TailEnds(s, v + k) # {} }

\* the match starting at i: lazy (.+?) takes the least length, greedy \s* the
\* farthest end
MatchAt(s, i) ==
    IF HeadAt(s, i) /\ ValueLens(s, i + 21) # {}
    THEN LET k == Min(ValueLens(s, i + 21))
         IN  [found |-> TRUE,
              index |-> i,
              end   |-> Max(TailEnds(s, i + 21 + k)),
              g1    |-> <<s[i + 2]>>,
              g2    |-> SubSeq(s, i + 21, i + 20 + k)]
    ELSE NoMatch

\* a faulty variant: the last match in the body
ExecLastMatch(s) ==
    LET starts == { i \in 1..Len(s) : MatchAt(s, i).found }
    IN  IF starts = {} THEN NoMatch ELSE MatchAt(s, Max(starts))

\* a regular expression without the g flag matches at the leftmost position
ExecRegex(s) ==
    LET starts == { i \in 1..Len(s) : MatchAt(s, i).found }
    IN  IF starts = {} THEN NoMatch ELSE MatchAt(s, Min(starts))

----------------------------------------------------------------------------
(* getSourceMapRelativeUrl *)

\* a faulty variant: last match wins
getSourceMapRelativeUrlLast(body) ==
    LET match == ExecLastMatch(body)
    IN  IF match.found THEN Some(match.g2) ELSE None

getSourceMapRelativeUrl(body) ==
    LET match == ExecRegex(body)
    IN  IF match.found THEN Some(match.g2) ELSE None

----------------------------------------------------------------------------
(* updateScriptPaths *)

\* String.prototype.replace with a string replacement: `$$`, `$&`, "$`",
\* `$'`, `$1` and `$2` are replacement patterns, anything else is literal
RECURSIVE GetSubstitution(_, _, _, _)
GetSubstitution(rep, p, s, m) ==
    IF p > Len(rep) THEN <<>>
    ELSE IF rep[p] = "$" /\ p < Len(rep) /\ rep[p + 1] \in {"$", "&", "`", "'", "1", "2"}
    THEN (CASE rep[p + 1] = "$" -> <<"$">>
            [] rep[p + 1] = "&" -> Slice(s, m.index, m.end - 1)
            [] rep[p + 1] = "`" -> Slice(s, 1, m.index - 1)
            [] rep[p + 1] = "'" -> Slice(s, m.end, Len(s))
            [] rep[p + 1] = "1" -> m.g1
            [] rep[p + 1] = "2" -> m.g2)
         \o GetSubstitution(rep, p + 2, s, m)
    ELSE <<rep[p]>> \o GetSubstitution(rep, p + 1, s, m)

\* scriptBody.replace(SourceMapURLRegex, rep): the first match only
Replace(s, rep) ==
    LET m == ExecRegex(s)
    IN  IF ~m.found THEN s
        ELSE Slice(s, 1, m.index - 1) \o GetSubstitution(rep, 1, s, m)
             \o Slice(s, m.end, Len(s))

RECURSIVE StripTrailingSlashes(_)
StripTrailingSlashes(p) ==
    IF p # <<>> /\ p[Len(p)] = "/" THEN StripTrailingSlashes(SubSeq(p, 1, Len(p) - 1))
    ELSE p

\* path.basename(p): what follows the last "/" once trailing "/" are dropped
basename(p) ==
    LET t == StripTrailingSlashes(p)
        slashes == { i \in 1..Len(t) : t[i] = "/" }
    IN  IF slashes = {} THEN t ELSE Slice(t, Max(slashes) + 1, Len(t))

CommentHash == <<"/", "/", "#">> \o Keyword

\* updateScriptPaths with a string pathname
updateScriptPaths(body, pathname) ==
    Replace(body, CommentHash \o basename(pathname))

\* path.basename(null), evaluated before replace is called: a TypeError where
\* path.basename checks its argument, the text "null" where it coerces it
BasenameOfNull == {Threw, Returned(<<"n", "u", "l", "l">>)}

updateScriptPathsOutcomes(body, url) ==
    IF url.some THEN {Returned(updateScriptPaths(body, url.v))}
    ELSE { IF b.threw THEN Threw ELSE Returned(Replace(body, CommentHash \o b.v))
           : b \in BasenameOfNull }

----------------------------------------------------------------------------
(* Script bodies and new locations the operations are applied to *)

CommentAt == <<"/", "/", "@">> \o Keyword

LineTexts ==
    { <<>>,
      <<" ">>,
      <<"a">>,
      CommentHash \o <<"m">>,
      CommentAt \o <<"k", " ", "k", " ">>,
      CommentHash,
      CommentAt \o <<" ", " ">>,
      <<"a">> \o CommentHash \o <<"m", "\t">> }

Eols == { <<"\n">>, <<"\r", "\n">> }

RECURSIVE SeqsUpTo(_, _)
SeqsUpTo(S, n) ==
    IF n = 0 THEN {<<>>}
    ELSE LET shorter == SeqsUpTo(S, n - 1)
         IN  shorter \cup { Append(q, x) : q \in { r \in shorter : Len(r) = n - 1 }, x \in S }

Bodies ==
    { JoinWith(ls, eol) \o fin :
        ls \in SeqsUpTo(LineTexts, MaxLines) \ {<<>>}, eol \in Eols, fin \in {<<>>} \cup Eols }

Pathnames ==
    { <<"/", "d", "/", "n", ".", "m">>,
      <<"/", "d", "/", "n", " ", "n", "/">>,
      <<"/", "$", "&">>,
      <<"/", "d", "/", "$", "1", "n">>,
      <<"/", "d", "/", "n", " ">>,
      <<"/">> }

NewLocations == { Some(p) : p \in Pathnames } \cup {None}

----------------------------------------------------------------------------
(* url.parse and url.format, as getSourceMapURL uses them *)

\* [a-z0-9.+-], over the characters the model's references are made of
SchemeChar == {"h", "t", "p", "s", "x", "m", "o", "u", "q", "f", "d", "a", "9", ".", "+", "-"}
Digit == {"1", "3", "8", "9"}

Http == <<"h", "t", "t", "p", ":">>
Https == <<"h", "t", "t", "p", "s", ":">>
\* slashedProtocol: the schemes that are always followed by //
SlashedProtocol == {Http, Https, <<"f", "t", "p", ":">>, <<"f", "i", "l", "e", ":">>}

\* the least position of a character of cs in s, Len(s) + 1 when there is none
RECURSIVE IndexFrom(_, _, _)
IndexFrom(s, cs, i) ==
    IF i > Len(s) \/ s[i] \in cs THEN i ELSE IndexFrom(s, cs, i + 1)

IndexOfAny(s, cs) == IndexFrom(s, cs, 1)

\* protocolPattern = /^([a-z0-9.+-]+:)/i: the length matched, 0 when none
ProtoLen(s) ==
    LET c == IndexOfAny(s, {":"})
    IN  IF c >= 2 /\ c <= Len(s) /\ \A i \in 1..(c - 1) : s[i] \in SchemeChar THEN c ELSE 0

\* rest.match(/^\/\/[^@\/]+@[^@\/]+/)
LooksLikeAuth(s) ==
    LET a == IndexOfAny(s, {"@"})
    IN  /\ Slice(s, 1, 2) = <<"/", "/">>
        /\ a >= 4 /\ a < Len(s)
        /\ \A i \in 3..(a - 1) : s[i] # "/"
        /\ s[a + 1] \notin {"@", "/"}

EmptyUrl ==
    [protocol |-> None, slashes |-> FALSE, auth |-> None, host |-> None,
     pathname |-> None, search |-> None, hash |-> None]

NoUrl == [some |-> FALSE, v |-> EmptyUrl]

\* a string as a field of a Url: null when empty
Field(s) == IF s = <<>> THEN None ELSE Some(s)

\* the position of the last "@" before the end of the host, 0 when none
AtSign(rest, hasHost) ==
    LET hostEnd == IndexOfAny(rest, {"/", "?", "#"})
        ats == { i \in 1..(hostEnd - 1) : rest[i] = "@" }
    IN  IF hasHost /\ ats # {} THEN Max(ats) ELSE 0

\* parseHost: where portPattern = /:[0-9]*$/ matches, Len(host) + 1 when not
PortAt(host) ==
    LET colons == { i \in 1..Len(host) :
                      host[i] = ":" /\ \A j \in (i + 1)..Len(host) : host[j] \in Digit }
    IN  IF colons = {} THEN Len(host) + 1 ELSE Min(colons)

\* the path, the query and the fragment of what follows the host
urlParsePath(proto, slashes, auth, hasHost, hostname, port, rest, hashAt) ==
    LET beforeHash == Slice(rest, 1, hashAt - 1)
        qm == IndexOfAny(beforeHash, {"?"})
        path == Slice(beforeHash, 1, qm - 1)
        pathname == IF path = <<>> /\ proto \in SlashedProtocol /\ hasHost /\ hostname # <<>>
                    THEN <<"/">> ELSE path
    IN  [protocol |-> Field(proto),
         slashes  |-> slashes,
         auth     |-> auth,
         host     |-> IF hasHost
                      THEN Some(hostname \o (IF port = <<>> THEN <<>> ELSE <<":">> \o port))
                      ELSE None,
         pathname |-> Field(pathname),
         search   |-> Field(Slice(beforeHash, qm, Len(beforeHash))),
         hash     |-> Field(Slice(rest, hashAt, Len(rest)))]

\* the host name and the port of what follows the credentials
urlParseHost(proto, slashes, auth, hasHost, rest, hostEnd) ==
    LET hostRaw == Slice(rest, 1, hostEnd - 1)
        portAt == PortAt(hostRaw)
        after == Slice(rest, hostEnd, Len(rest))
    IN  urlParsePath(proto, slashes, auth, hasHost,
                     Slice(hostRaw, 1, portAt - 1), Slice(hostRaw, portAt + 1, Len(hostRaw)),
                     after, IndexOfAny(after, {"#"}))

\* the credentials of what follows the scheme and its slashes
urlParseAuth(proto, slashes, hasHost, rest, atSign) ==
    IF hasHost
    THEN LET after == Slice(rest, atSign + 1, Len(rest))
         IN  urlParseHost(proto, slashes,
                          IF atSign > 0 THEN Some(Slice(rest, 1, atSign - 1)) ELSE None,
                          TRUE, after, IndexOfAny(after, {"/", "?", "#", ";"}))
    ELSE urlParsePath(proto, slashes, None, FALSE, <<>>, <<>>, rest, IndexOfAny(rest, {"#"}))

\* the slashes after the scheme: a host follows them, or a scheme that is
\* not always slashed
urlParseSlashes(proto, rest, slashes) ==
    LET hasHost == slashes \/ (proto # <<>> /\ proto \notin SlashedProtocol)
        after == IF slashes THEN Slice(rest, 3, Len(rest)) ELSE rest
    IN  urlParseAuth(proto, slashes, hasHost, after, AtSign(after, hasHost))

urlParseRest(proto, rest) ==
    urlParseSlashes(proto, rest,
                    (proto # <<>> \/ LooksLikeAuth(rest)) /\ Slice(rest, 1, 2) = <<"/", "/">>)

\* url.parse(url), without parseQueryString and slashesDenoteHost
urlParseFrom(url, plen) == urlParseRest(Slice(url, 1, plen), Slice(url, plen + 1, Len(url)))

urlParse(url) == urlParseFrom(url, ProtoLen(url))

\* url.format(u) for a Url whose host is set
urlFormat(u) ==
    LET auth == IF u.auth.some /\ u.auth.v # <<>> THEN u.auth.v \o <<"@">> ELSE <<>>
        protocol == u.protocol.v
        slashed == u.slashes \/ protocol = <<>> \/ protocol \in SlashedProtocol
        host == (IF slashed THEN <<"/", "/">> ELSE <<>>) \o auth \o u.host.v
        pathname == IF slashed /\ u.pathname.v # <<>> /\ u.pathname.v[1] # "/"
                    THEN <<"/">> \o u.pathname.v ELSE u.pathname.v
    IN  protocol \o host \o pathname \o u.search.v \o u.hash.v

----------------------------------------------------------------------------
(* getSourceMapURL *)

\* body.match(...) on an absent body is a TypeError
getSourceMapURL(url, body) ==
    IF ~body.some THEN [threw |-> TRUE, v |-> NoUrl]
    ELSE LET sourceMappingRelativeUrl == getSourceMapRelativeUrl(body.v)
         IN  IF sourceMappingRelativeUrl.some
             THEN LET parsed == urlParse(sourceMappingRelativeUrl.v)
                      sourceMappingUrl_ == [parsed EXCEPT !.protocol = Some(url.protocol),
                                                          !.host = Some(url.host)]
                  IN  [threw |-> FALSE,
                       v |-> [some |-> TRUE, v |-> urlParse(urlFormat(sourceMappingUrl_))]]
             ELSE [threw |-> FALSE, v |-> NoUrl]

----------------------------------------------------------------------------
(* path.relative, path.sep and path.posix.join, per platform.  A win32     *)
(* path is modelled without its drive: every path is on the drive of cwd.  *)

\* path.sep
Sep(plat) == IF plat = "win32" THEN "\\" ELSE "/"
\* the characters the platform's path functions read as separators
Seps(plat) == IF plat = "win32" THEN {"\\", "/"} ELSE {"/"}

\* s.split(separator): the pieces between characters of cs, empty ones kept
RECURSIVE SplitOn(_, _)
SplitOn(s, cs) ==
    LET i == IndexOfAny(s, cs)
    IN  IF i > Len(s) THEN <<s>>
        ELSE <<Slice(s, 1, i - 1)>> \o SplitOn(Slice(s, i + 1, Len(s)), cs)

Dot == <<".">>
DotDot == <<".", ".">>

\* normalizeArray(parts, allowAboveRoot), res being the parts kept so far
RECURSIVE normalizeArray(_, _, _)
normalizeArray(parts, allowAboveRoot, res) ==
    IF parts = <<>> THEN res
    ELSE LET p == Head(parts)
             next == IF p = <<>> \/ p = Dot THEN res
                     ELSE IF p = DotDot
                          THEN IF res # <<>> /\ res[Len(res)] # DotDot
                               THEN SubSeq(res, 1, Len(res) - 1)
                               ELSE IF allowAboveRoot THEN Append(res, p) ELSE res
                          ELSE Append(res, p)
         IN  normalizeArray(Tail(parts), allowAboveRoot, next)

isAbsolute(p, plat) == p # <<>> /\ p[1] \in Seps(plat)

\* path.resolve(p): the parts of the absolute path p names, relative paths
\* being resolved against process.cwd()
resolveParts(p, dir, plat) ==
    normalizeArray(SplitOn(IF isAbsolute(p, plat) THEN p ELSE dir \o <<Sep(plat)>> \o p,
                           Seps(plat)),
                   FALSE, <<>>)

\* the number of leading parts two paths share
RECURSIVE samePartsLength(_, _)
samePartsLength(a, b) ==
    IF a = <<>> \/ b = <<>> \/ Head(a) # Head(b) THEN 0
    ELSE 1 + samePartsLength(Tail(a), Tail(b))

\* path.relative(from, to)
relative(from, to, dir, plat) ==
    LET fromParts == resolveParts(from, dir, plat)
        toParts == resolveParts(to, dir, plat)
        same == samePartsLength(fromParts, toParts)
        outputParts == [i \in 1..(Len(fromParts) - same) |-> DotDot]
                       \o Slice(toParts, same + 1, Len(toParts))
    IN  JoinWith(outputParts, <<Sep(plat)>>)

\* path.posix.normalize(path)
posixNormalize(path) ==
    LET abs == path # <<>> /\ path[1] = "/"
        trailingSlash == path # <<>> /\ path[Len(path)] = "/"
        joined == JoinWith(normalizeArray(SplitOn(path, {"/"}), ~abs, <<>>), <<"/">>)
        dotted == IF joined = <<>> /\ ~abs THEN Dot ELSE joined
    IN  (IF abs THEN <<"/">> ELSE <<>>) \o dotted
        \o (IF dotted # <<>> /\ trailingSlash THEN <<"/">> ELSE <<>>)

\* path.posix.join.apply(null, pathArgs): empty arguments are skipped
posixJoin(pathArgs) ==
    posixNormalize(JoinWith(SelectSeq(pathArgs, LAMBDA a : a # <<>>), <<"/">>))

\* a faulty variant: the separators are left as they are
makeUnixStylePathKeep(p, plat) == p

\* makeUnixStylePath

makeUnixStylePath(p, plat) == posixJoin(SplitOn(p, {Sep(plat)}))

\* a faulty variant: the path of the root relative to the source
updateSourceMapPathSwapped(sourcePath, root, dir, plat) ==
    makeUnixStylePath(relative(sourcePath, root, dir, plat), plat)

\* updateSourceMapPath

updateSourceMapPath(sourcePath, root, dir, plat) ==
    makeUnixStylePath(relative(root, sourcePath, dir, plat), plat)

----------------------------------------------------------------------------
(* JSON.parse and JSON.stringify.  A value is a record [t, s, xs, ms]: a   *)
(* string or a number has its characters s, an array its elements xs, an   *)
(* object its members ms, records [k, x] in insertion order.               *)

Str(s) == [t |-> "str", s |-> s, xs |-> <<>>, ms |-> <<>>]
Num(d) == [t |-> "num", s |-> d, xs |-> <<>>, ms |-> <<>>]
Null == [t |-> "null", s |-> <<>>, xs |-> <<>>, ms |-> <<>>]
Arr(xs) == [t |-> "arr", s |-> <<>>, xs |-> xs, ms |-> <<>>]
Obj(ms) == [t |-> "obj", s |-> <<>>, xs |-> <<>>, ms |-> ms]

Member(k, x) == [k |-> k, x |-> x]

HasKey(ms, k) == \E i \in 1..Len(ms) : ms[i].k = k
KeyIndex(ms, k) == CHOOSE i \in 1..Len(ms) : ms[i].k = k

\* o[k] = x: an existing property keeps its place, a new one goes last
ObjSet(ms, k, x) ==
    IF HasKey(ms, k) THEN [ms EXCEPT ![KeyIndex(ms, k)] = Member(k, x)]
    ELSE Append(ms, Member(k, x))

\* delete o[k]
ObjDelete(ms, k) == SelectSeq(ms, LAMBDA m : m.k # k)

JsonWs == {" ", "\t", "\n", "\r"}
NullText == <<"n", "u", "l", "l">>

\* the first position at or after i that holds no whitespace
RECURSIVE SkipWs(_, _)
SkipWs(t, i) == IF i > Len(t) \/ t[i] \notin JsonWs THEN i ELSE SkipWs(t, i + 1)

\* the first position at or after i that holds no digit
RECURSIVE SkipDigits(_, _)
SkipDigits(t, i) == IF i > Len(t) \/ t[i] \notin Digit THEN i ELSE SkipDigits(t, i + 1)

Fail == [ok |-> FALSE, val |-> Null, next |-> 0]
Parsed(x, n) == [ok |-> TRUE, val |-> x, next |-> n]

\* the characters of a string literal, read from i (after the opening quote)
RECURSIVE ParseString(_, _, _)
ParseString(t, i, acc) ==
    IF i > Len(t) \/ t[i] \in {"\n", "\r", "\t"} THEN Fail
    ELSE IF t[i] = "\"" THEN Parsed(Str(acc), i + 1)
    ELSE IF t[i] = "\\"
         THEN IF i + 1 <= Len(t) /\ t[i + 1] \in {"\"", "\\", "/"}
              THEN ParseString(t, i + 2, Append(acc, t[i + 1]))
              ELSE Fail
    ELSE ParseString(t, i + 1, Append(acc, t[i]))

RECURSIVE ParseValue(_, _)
RECURSIVE ParseElements(_, _, _)
RECURSIVE ParseMembers(_, _, _)

ParseValue(t, i0) ==
    LET i == SkipWs(t, i0)
    IN  IF i > Len(t) THEN Fail
        ELSE IF t[i] = "\"" THEN ParseString(t, i + 1, <<>>)
        ELSE IF t[i] \in Digit
             THEN LET j == SkipDigits(t, i)
                  IN  Parsed(Num(Slice(t, i, j - 1)), j)
        ELSE IF Slice(t, i, i + 3) = NullText THEN Parsed(Null, i + 4)
        ELSE IF t[i] = "["
             THEN LET j == SkipWs(t, i + 1)
                  IN  IF j <= Len(t) /\ t[j] = "]" THEN Parsed(Arr(<<>>), j + 1)
                      ELSE ParseElements(t, j, <<>>)
        ELSE IF t[i] = "{"
             THEN LET j == SkipWs(t, i + 1)
                  IN  IF j <= Len(t) /\ t[j] = "}" THEN Parsed(Obj(<<>>), j + 1)
                      ELSE ParseMembers(t, j, <<>>)
        ELSE Fail

ParseElements(t, i, acc) ==
    LET r == ParseValue(t, i)
        j == SkipWs(t, r.next)
    IN  IF ~r.ok \/ j > Len(t) THEN Fail
        ELSE IF t[j] = "," THEN ParseElements(t, j + 1, Append(acc, r.val))
        ELSE IF t[j] = "]" THEN Parsed(Arr(Append(acc, r.val)), j + 1)
        ELSE Fail

ParseMembers(t, i0, acc) ==
    LET i == SkipWs(t, i0)
        key == IF i <= Len(t) /\ t[i] = "\"" THEN ParseString(t, i + 1, <<>>) ELSE Fail
        c == IF key.ok THEN SkipWs(t, key.next) ELSE 0
        r == IF key.ok /\ c <= Len(t) /\ t[c] = ":" THEN ParseValue(t, c + 1) ELSE Fail
        j == IF r.ok THEN SkipWs(t, r.next) ELSE 0
    IN  IF ~r.ok \/ j > Len(t) THEN Fail
        ELSE IF t[j] = "," THEN ParseMembers(t, j + 1, ObjSet(acc, key.val.s, r.val))
        ELSE IF t[j] = "}" THEN Parsed(Obj(ObjSet(acc, key.val.s, r.val)), j + 1)
        ELSE Fail

\* JSON.parse(text): a SyntaxError is ok = FALSE
JSONparse(t) ==
    LET r == ParseValue(t, 1)
    IN  IF r.ok /\ SkipWs(t, r.next) = Len(t) + 1 THEN r ELSE Fail

\* a string literal: `"` and `\` are escaped
RECURSIVE Escape(_)
Escape(s) ==
    IF s = <<>> THEN <<>>
    ELSE (IF Head(s) \in {"\"", "\\"} THEN <<"\\", Head(s)>> ELSE <<Head(s)>>)
         \o Escape(Tail(s))

Quote(s) == <<"\"">> \o Escape(s) \o <<"\"">>

RECURSIVE JSONstringify(_)
RECURSIVE StringifyAll(_)
RECURSIVE StringifyMembers(_)

JSONstringify(x) ==
    CASE x.t = "str" -> Quote(x.s)
      [] x.t = "num" -> x.s
      [] x.t = "null" -> NullText
      [] x.t = "arr" -> <<"[">> \o JoinWith(StringifyAll(x.xs), <<",">>) \o <<"]">>
      [] x.t = "obj" -> <<"{">> \o JoinWith(StringifyMembers(x.ms), <<",">>) \o <<"}">>

StringifyAll(xs) ==
    IF xs = <<>> THEN <<>> ELSE <<JSONstringify(Head(xs))>> \o StringifyAll(Tail(xs))

StringifyMembers(ms) ==
    IF ms = <<>> THEN <<>>
    ELSE <<Quote(Head(ms).k) \o <<":">> \o JSONstringify(Head(ms).x)>>
         \o StringifyMembers(Tail(ms))

----------------------------------------------------------------------------
(* updateSourceMapFile *)

KeySources == <<"s", "o", "u", "r", "c", "e", "s">>
KeySourcesContent == <<"s", "o", "u", "r", "c", "e", "s", "C", "o", "n", "t", "e", "n", "t">>
KeySourceRoot == <<"s", "o", "u", "r", "c", "e", "R", "o", "o", "t">>
KeyFile == <<"f", "i", "l", "e">>

\* sourceMap.sources.map(...) completes: sourceMap is an object (reading a
\* property of null throws, a number, a string or an array has no `sources`),
\* its `sources` is an array (nothing else has a `map` to call), and every
\* entry is a string (path.relative throws on anything else)
MapCompletes(sourceMap) ==
    /\ sourceMap.t = "obj"
    /\ HasKey(sourceMap.ms, KeySources)
    /\ LET sources == sourceMap.ms[KeyIndex(sourceMap.ms, KeySources)].x
       IN  /\ sources.t = "arr"
           /\ \A i \in 1..Len(sources.xs) : sources.xs[i].t = "str"

\* the try block, once sources.map has completed
Rewrite(sourceMap, path, root, dir, plat) ==
    LET sources == sourceMap.ms[KeyIndex(sourceMap.ms, KeySources)].x.xs
        mapped == [i \in 1..Len(sources) |->
                     Str(updateSourceMapPath(sources[i].s, root, dir, plat))]
        m1 == ObjSet(sourceMap.ms, KeySources, Arr(mapped))
        m2 == ObjDelete(m1, KeySourcesContent)
        m3 == ObjSet(m2, KeySourceRoot, Str(<<>>))
        m4 == ObjSet(m3, KeyFile, Str(path))
    IN  JSONstringify(Obj(m4))

\* a faulty variant: the inlined contents and the source root are left as they are
updateSourceMapFileKeepContent(body, path, root, dir, plat) ==
    LET parsed == JSONparse(body)
    IN  IF ~parsed.ok \/ ~MapCompletes(parsed.val) THEN body
        ELSE LET sourceMap == parsed.val
                 sources == sourceMap.ms[KeyIndex(sourceMap.ms, KeySources)].x.xs
                 mapped == [i \in 1..Len(sources) |->
                              Str(updateSourceMapPath(sources[i].s, root, dir, plat))]
             IN  JSONstringify(Obj(ObjSet(ObjSet(sourceMap.ms, KeySources, Arr(mapped)),
                                          KeyFile, Str(path))))

\* a faulty variant: a document without usable `sources` is rewritten all the same
updateSourceMapFileNoCatch(body, path, root, dir, plat) ==
    LET parsed == JSONparse(body)
    IN  IF ~parsed.ok \/ parsed.val.t # "obj" THEN body
        ELSE IF MapCompletes(parsed.val) THEN Rewrite(parsed.val, path, root, dir, plat)
        ELSE JSONstringify(Obj(ObjSet(ObjSet(ObjDelete(parsed.val.ms, KeySourcesContent),
                                             KeySourceRoot, Str(<<>>)),
                                      KeyFile, Str(path))))

\* updateSourceMapFile: whatever is thrown in the try block is caught and the
\* input text returned
updateSourceMapFile(body, path, root, dir, plat) ==
    LET parsed == JSONparse(body)
    IN  IF ~parsed.ok THEN body
        ELSE IF ~MapCompletes(parsed.val) THEN body
        ELSE Rewrite(parsed.val, path, root, dir, plat)

----------------------------------------------------------------------------
(* Specification of the script-body operations *)

Idle == [threw |-> FALSE, v |-> <<>>]

InitBody ==
    /\ pc = "start"
    /\ platform = "posix"
    /\ cwd = <<>>
    /\ scriptBody \in { Some(b) : b \in Bodies }
    /\ scriptUrl = <<>>
    /\ sourceMappingUrl \in NewLocations
    /\ located = None
    /\ rewritten = Idle
    /\ relocated = None
    /\ resultUrl = [threw |-> FALSE, v |-> NoUrl]
    /\ sourceMapBody = <<>>
    /\ scriptPath = <<>>
    /\ sourcesRootPath = <<>>
    /\ normalized = Idle
    /\ renormalized = Idle

Locate ==
    /\ pc = "start"
    /\ located' = getSourceMapRelativeUrl(scriptBody.v)
    /\ pc' = "located"
    /\ UNCHANGED <<platform, cwd, scriptBody, scriptUrl, sourceMappingUrl, rewritten,
                   relocated, resultUrl, sourceMapBody, scriptPath, sourcesRootPath,
                   normalized, renormalized>>

UpdateScriptPaths ==
    /\ pc = "located"
    /\ rewritten' \in updateScriptPathsOutcomes(scriptBody.v, sourceMappingUrl)
    /\ pc' = IF rewritten'.threw THEN "raised" ELSE "rewritten"
    /\ UNCHANGED <<platform, cwd, scriptBody, scriptUrl, sourceMappingUrl, located,
                   relocated, resultUrl, sourceMapBody, scriptPath, sourcesRootPath,
                   normalized, renormalized>>

LocateRewritten ==
    /\ pc = "rewritten"
    /\ relocated' = getSourceMapRelativeUrl(rewritten.v)
    /\ pc' = "relocated"
    /\ UNCHANGED <<platform, cwd, scriptBody, scriptUrl, sourceMappingUrl, located,
                   rewritten, resultUrl, sourceMapBody, scriptPath, sourcesRootPath,
                   normalized, renormalized>>

NextBody == Locate \/ UpdateScriptPaths \/ LocateRewritten

SpecBody == InitBody /\ [][NextBody]_vars

----------------------------------------------------------------------------
(* Script locations and reference values getSourceMapURL is applied to *)

RefSchemes == { <<>>, Http, <<"x", ":">> }
RefAuthorities ==
    { <<>>,
      <<"/", "/", "o">>,
      <<"/", "/", "o", ":", "9">>,
      <<"/", "/", "u", ":", "p", "@", "o", ":", "9">> }
RefPaths == { <<>>, <<"/", "m">>, <<"m">>, <<"/", "d", "/", "m", ".", "m">> }
RefQueries == { <<>>, <<"?", "q">> }
RefHashes == { <<>>, <<"#", "f">> }

References ==
    { sc \o au \o pa \o qu \o ha :
        sc \in RefSchemes, au \in RefAuthorities, pa \in RefPaths, qu \in RefQueries,
        ha \in RefHashes } \ {<<>>}

UrlBodies ==
    { <<"a", "\n">> \o c \o r \o e :
        c \in {CommentHash, CommentAt}, r \in References, e \in {<<>>, <<" ", "\n">>} }
    \cup { <<>>, <<"a", "\n">>, <<"a", "\n">> \o CommentHash }

ScriptUrls ==
    { [protocol |-> pr, host |-> ho, auth |-> au] :
        pr \in {Http, Https},
        ho \in { <<"l", ":", "8">>, <<"h">> },
        au \in { None, Some(<<"a", ":", "b">>) } }

InitUrl ==
    /\ pc = "start"
    /\ platform = "posix"
    /\ cwd = <<>>
    /\ scriptBody \in { Some(b) : b \in UrlBodies } \cup {None}
    /\ scriptUrl \in ScriptUrls
    /\ sourceMappingUrl = None
    /\ located = None
    /\ rewritten = Idle
    /\ relocated = None
    /\ resultUrl = [threw |-> FALSE, v |-> NoUrl]
    /\ sourceMapBody = <<>>
    /\ scriptPath = <<>>
    /\ sourcesRootPath = <<>>
    /\ normalized = Idle
    /\ renormalized = Idle

GetSourceMapURL ==
    /\ pc = "start"
    /\ resultUrl' = getSourceMapURL(scriptUrl, scriptBody)
    /\ pc' = IF resultUrl'.threw THEN "raised" ELSE "resolved"
    /\ UNCHANGED <<platform, cwd, scriptBody, scriptUrl, sourceMappingUrl, located,
                   rewritten, relocated, sourceMapBody, scriptPath, sourcesRootPath,
                   normalized, renormalized>>

NextUrl == GetSourceMapURL

SpecUrl == InitUrl /\ [][NextUrl]_vars

----------------------------------------------------------------------------
(* Source-map documents, paths and directories updateSourceMapFile is      *)
(* applied to                                                              *)

\* an absolute path of the platform, from its segments
Native(segs, plat) == <<Sep(plat)>> \o JoinWith(segs, <<Sep(plat)>>)

SegP == <<"p">>
SegS == <<"s">>
SegA == <<"a">>
SegI == <<"i">>

\* /p/s, /p/s/ and /
RootSegs == { <<SegP, SegS>>, <<SegP, SegS, <<>>>>, <<>> }

\* /p/s and /w
CwdSegs == { <<SegP, SegS>>, <<<<"w">>>> }

\* /p/s/a/i, /o/l, /p/s, /p/sa, /p/s/../a//i
AbsoluteEntrySegs ==
    { <<SegP, SegS, SegA, SegI>>,
      <<<<"o">>, <<"l">>>>,
      <<SegP, SegS>>,
      <<SegP, <<"s", "a">>>>,
      <<SegP, SegS, DotDot, SegA, <<>>, SegI>> }

\* the entries of `sources`: absolute paths, the relative path a/i, and
\* entries that are no strings
Entries(plat) ==
    { Str(Native(e, plat)) : e \in AbsoluteEntrySegs }
    \cup { Str(<<"a", Sep(plat), "i">>), Num(<<"1">>), Null }

\* documents as the packager writes them, around a list of sources
Documents(sources, plat) ==
    { Obj(<<Member(<<"v">>, Num(<<"3">>)),
            Member(KeySources, Arr(sources)),
            Member(<<"m">>, Str(<<"A">>))>>),
      Obj(<<Member(KeyFile, Str(<<"o">>)),
            Member(KeySourceRoot, Str(Native(<<<<"r">>>>, plat))),
            Member(KeySources, Arr(sources)),
            Member(KeySourcesContent, Arr(<<Str(<<"c">>)>>))>>),
      Obj(<<Member(KeySources, Arr(sources)),
            Member(KeySourceRoot, Str(<<>>)),
            Member(KeySourcesContent, Null),
            Member(KeyFile, Num(<<"3">>))>>) }

\* values that are no source-map documents
OtherValues ==
    { Num(<<"3">>), Str(<<"s">>), Null, Arr(<<>>), Arr(<<Str(<<"/", "p">>)>>),
      Obj(<<>>),
      Obj(<<Member(KeyFile, Str(<<"o">>))>>),
      Obj(<<Member(KeySources, Num(<<"3">>))>>),
      Obj(<<Member(KeySources, Str(<<"/", "p">>))>>),
      Obj(<<Member(KeySources, Null)>>),
      Obj(<<Member(KeySources, Obj(<<Member(<<"m", "a", "p">>, Num(<<"1">>))>>))>>) }

\* a document cut short, and texts that are no JSON
ShortDocument == JSONstringify(Obj(<<Member(KeySources, Arr(<<Str(<<"/", "p">>)>>))>>))

BrokenTexts ==
    { SubSeq(ShortDocument, 1, n) : n \in 0..(Len(ShortDocument) - 1) }
    \cup { ShortDocument \o <<"x">>,
           <<"{">> \o KeySources \o <<":", "[", "]", "}">>,
           <<"{">> \o Quote(KeySources) \o <<":", "[", "\"", "a", "\"", ",", "]", "}">>,
           <<"n", "u", "l">> }

SourceMapBodies(plat) ==
    { JSONstringify(d) :
        d \in UNION { Documents(ss, plat) : ss \in SeqsUpTo(Entries(plat), MaxSources) } }
    \cup { JSONstringify(x) : x \in OtherValues }
    \cup { <<" ">> \o JSONstringify(d) \o <<"\n">> : d \in Documents(<<>>, plat) }
    \cup BrokenTexts

Platforms == {"posix", "win32"}

----------------------------------------------------------------------------
(* Specification of the source-map operations *)

InitMap ==
    /\ pc = "start"
    /\ platform \in Platforms
    /\ cwd \in { Native(c, platform) : c \in CwdSegs }
    /\ scriptBody = None
    /\ scriptUrl = <<>>
    /\ sourceMappingUrl = None
    /\ located = None
    /\ rewritten = Idle
    /\ relocated = None
    /\ resultUrl = [threw |-> FALSE, v |-> NoUrl]
    /\ sourceMapBody \in SourceMapBodies(platform)
    /\ scriptPath = Native(<<<<"t">>, <<"b">>>>, platform)
    /\ sourcesRootPath \in { Native(r, platform) : r \in RootSegs }
    /\ normalized = Idle
    /\ renormalized = Idle

UpdateSourceMapFile ==
    /\ pc = "start"
    /\ normalized' = Returned(updateSourceMapFile(sourceMapBody, scriptPath,
                                                  sourcesRootPath, cwd, platform))
    /\ pc' = "normalized"
    /\ UNCHANGED <<platform, cwd, scriptBody, scriptUrl, sourceMappingUrl, located,
                   rewritten, relocated, resultUrl, sourceMapBody, scriptPath,
                   sourcesRootPath, renormalized>>

\* the output of the first call, normalized again with the same arguments
UpdateSourceMapFileAgain ==
    /\ pc = "normalized"
    /\ renormalized' = Returned(updateSourceMapFile(normalized.v, scriptPath,
                                                    sourcesRootPath, cwd, platform))
    /\ pc' = "renormalized"
    /\ UNCHANGED <<platform, cwd, scriptBody, scriptUrl, sourceMappingUrl, located,
                   rewritten, relocated, resultUrl, sourceMapBody, scriptPath,
                   sourcesRootPath, normalized>>

NextMap == UpdateSourceMapFile \/ UpdateSourceMapFileAgain

SpecMap == InitMap /\ [][NextMap]_vars

----------------------------------------------------------------------------
(* What the claims call a reference comment, read line by line *)

\* the first line end at or after position i
LineEndFrom(s, i) == Min({ j \in i..(Len(s) + 1) : AtLineEnd(s, j) })

\* the text after `sourceMappingURL=` up to the line end, for a comment at i
CommentValue(s, i) == Slice(s, i + 21, LineEndFrom(s, i + 21) - 1)

\* a reference comment of either accepted form, with a value, starts at i
IsCommentAt(s, i) ==
    /\ Slice(s, i, i + 20) \in {CommentHash, CommentAt}
    /\ CommentValue(s, i) # <<>>

Comments(s) == { i \in 1..Len(s) : IsCommentAt(s, i) }

RECURSIVE TrimRight(_)
TrimRight(v) ==
    IF v # <<>> /\ v[Len(v)] \in WhiteSpace THEN TrimRight(SubSeq(v, 1, Len(v) - 1))
    ELSE v

\* the final segment of a pathname: what follows its last "/", trailing "/"
\* set aside
RECURSIVE LastSegment(_)
LastSegment(p) ==
    IF p = <<>> THEN <<>>
    ELSE IF p[Len(p)] = "/" THEN LastSegment(SubSeq(p, 1, Len(p) - 1))
    ELSE LET rest == SubSeq(p, 1, Len(p) - 1)
         IN  IF rest = <<>> \/ rest[Len(rest)] = "/" THEN <<p[Len(p)]>>
             ELSE LastSegment(rest) \o <<p[Len(p)]>>

Has(s, c) == \E i \in 1..Len(s) : s[i] = c

\* C2: for a body with a reference comment, the text before the first comment
\* is kept, and at the comment's place the result reads exactly
\* `//# sourceMappingURL=<basename>` up to the line end, <basename> being
\* literally the final segment of the new location's pathname.
C2_CommentReplacedByBasename ==
    (pc \in {"rewritten", "relocated"} /\ sourceMappingUrl.some /\ Comments(scriptBody.v) # {})
    => LET i == Min(Comments(scriptBody.v))
           canon == CommentHash \o LastSegment(sourceMappingUrl.v)
       IN  /\ Slice(rewritten.v, 1, i - 1) = Slice(scriptBody.v, 1, i - 1)
           /\ Slice(rewritten.v, i, i + Len(canon) - 1) = canon
           /\ AtLineEnd(rewritten.v, i + Len(canon))

\* C3: the rewrite changes nothing but the first reference comment: the text
\* before it and everything from the end of its line on (line terminators,
\* blank lines, later comments) are kept; a body with no reference comment is
\* returned as it is.
C3_OnlyFirstCommentChanges ==
    (pc \in {"rewritten", "relocated"} /\ sourceMappingUrl.some)
    => IF Comments(scriptBody.v) = {} THEN rewritten.v = scriptBody.v
       ELSE LET i == Min(Comments(scriptBody.v))
                rest == Slice(scriptBody.v, LineEndFrom(scriptBody.v, i), Len(scriptBody.v))
                n == Len(rewritten.v)
            IN  /\ Slice(rewritten.v, 1, i - 1) = Slice(scriptBody.v, 1, i - 1)
                /\ n >= (i - 1) + Len(rest)
                /\ Slice(rewritten.v, n - Len(rest) + 1, n) = rest

\* C7: the locator returns not-found exactly when the body has no reference
\* comment; otherwise it returns the value of the first one: the text after
\* `sourceMappingURL=` up to the line end, without trailing whitespace.
C7_LocatorReturnsFirstTrimmedValue ==
    (pc # "start")
    => /\ located.some <=> Comments(scriptBody.v) # {}
       /\ Comments(scriptBody.v) # {}
          => /\ located.v = TrimRight(CommentValue(scriptBody.v, Min(Comments(scriptBody.v))))
             /\ (located.v = <<>> \/ located.v[Len(located.v)] \notin WhiteSpace)

\* the case C10 is about: a body with a reference comment, rewritten for a
\* location whose basename is non-empty, has no line terminator and no `$`,
\* and does not end in whitespace
RoundTripCase ==
    /\ pc = "relocated"
    /\ sourceMappingUrl.some
    /\ Comments(scriptBody.v) # {}
    /\ LET b == LastSegment(sourceMappingUrl.v)
       IN  /\ b # <<>>
           /\ \A i \in 1..Len(b) : b[i] \notin LineTerminator /\ b[i] # "$"
           /\ b[Len(b)] \notin WhiteSpace

\* C10: in that case the locator applied to the rewritten body returns
\* exactly the basename.
C10_RewriteThenLocate ==
    RoundTripCase => relocated = Some(LastSegment(sourceMappingUrl.v))

\* a body with two reference comments of different values, round-tripped
C10_Witness ==
    /\ RoundTripCase
    /\ Cardinality(Comments(scriptBody.v)) >= 2
    /\ located.v # LastSegment(sourceMappingUrl.v)
    /\ Has(LastSegment(sourceMappingUrl.v), " ")
    /\ relocated = Some(LastSegment(sourceMappingUrl.v))

----------------------------------------------------------------------------
(* The reference value read as a generic URI:                              *)
(* [scheme:][//authority]path[?query][#fragment]                           *)

RefSchemeLen(r) ==
    LET c == IndexOfAny(r, {":", "/", "?", "#"})
    IN  IF c >= 2 /\ c <= Len(r) /\ r[c] = ":" THEN c ELSE 0

RefAfterScheme(r) == Slice(r, RefSchemeLen(r) + 1, Len(r))

RefAfterAuthority(r) ==
    LET t == RefAfterScheme(r)
    IN  IF Slice(t, 1, 2) = <<"/", "/">>
        THEN LET u == Slice(t, 3, Len(t)) IN Slice(u, IndexOfAny(u, {"/", "?", "#"}), Len(u))
        ELSE t

RefPathOf(r) ==
    LET t == RefAfterAuthority(r) IN Slice(t, 1, IndexOfAny(t, {"?", "#"}) - 1)

RefQueryOf(r) ==
    LET t == RefAfterAuthority(r)
        u == Slice(t, 1, IndexOfAny(t, {"#"}) - 1)
    IN  Slice(u, IndexOfAny(u, {"?"}), Len(u))

\* a path as it reads in an absolute location: with its leading "/"
Rooted(p) == IF p # <<>> /\ p[1] = "/" THEN p ELSE <<"/">> \o p

\* C8: with no reference comment the result is not-found; with one, the
\* result has the scheme and host of the script location, carries no
\* credentials but the script location's, and has the path and query of the
\* reference value.
C8_OriginOfScriptPathOfReference ==
    (pc = "resolved")
    => IF Comments(scriptBody.v) = {} THEN ~resultUrl.v.some
       ELSE LET ref == TrimRight(CommentValue(scriptBody.v, Min(Comments(scriptBody.v))))
                u == resultUrl.v.v
            IN  /\ resultUrl.v.some
                /\ u.protocol = Some(scriptUrl.protocol)
                /\ u.host = Some(scriptUrl.host)
                /\ u.auth \in {None, scriptUrl.auth}
                /\ Rooted(u.pathname.v) = Rooted(RefPathOf(ref))
                /\ u.search.v = RefQueryOf(ref)

\* C9: no public operation raises, whatever its input.
C9_NoOperationRaises ==
    /\ ~resultUrl.threw
    /\ ~rewritten.threw
    /\ ~normalized.threw
    /\ ~renormalized.threw

----------------------------------------------------------------------------
(* Source-map documents as the claims read them *)

\* the member k of a parsed object
Get(x, k) == x.ms[KeyIndex(x.ms, k)].x

IsStringArray(x) == x.t = "arr" /\ \A i \in 1..Len(x.xs) : x.xs[i].t = "str"

\* the text is malformed JSON, or parses to a value that is no object, or to
\* an object whose `sources` is missing or is not a sequence of strings
Unprocessable(text) ==
    LET r == JSONparse(text)
    IN  \/ ~r.ok
        \/ r.val.t \in {"num", "str", "null", "arr"}
        \/ /\ r.val.t = "obj"
           /\ (~HasKey(r.val.ms, KeySources) \/ ~IsStringArray(Get(r.val, KeySources)))

Normalized == pc \in {"normalized", "renormalized"}

InputMap == JSONparse(sourceMapBody).val
OutputMap == JSONparse(normalized.v).val
OutputMapAgain == JSONparse(renormalized.v).val

\* C1: a text that cannot be processed as a source-map document is returned
\* exactly as it was given, and nothing is thrown.
C1_UnprocessableReturnedUnchanged ==
    (Normalized /\ Unprocessable(sourceMapBody))
    => (~normalized.threw /\ normalized.v = sourceMapBody)

\* an object whose `sources` holds a path and then something that is no string
C1_Witness ==
    /\ pc = "normalized"
    /\ normalized.v = sourceMapBody
    /\ LET in == JSONparse(sourceMapBody)
       IN  /\ in.ok
           /\ in.val.t = "obj"
           /\ HasKey(in.val.ms, KeySources)
           /\ HasKey(in.val.ms, KeySourcesContent)
           /\ Get(in.val, KeySources).t = "arr"
           /\ Len(Get(in.val, KeySources).xs) = 2
           /\ Get(in.val, KeySources).xs[1].t = "str"
           /\ Get(in.val, KeySources).xs[2].t = "num"

\* what C5 says of an input document and the output made from it
NormalizedFrom(in, out) ==
    /\ out.t = "obj"
    /\ ~HasKey(out.ms, KeySourcesContent)
    /\ HasKey(out.ms, KeySourceRoot)
    /\ Get(out, KeySourceRoot) = Str(<<>>)
    /\ HasKey(out.ms, KeyFile)
    /\ Get(out, KeyFile) = Str(scriptPath)
    /\ HasKey(out.ms, KeySources)
    /\ LET from == Get(in, KeySources).xs
           to == Get(out, KeySources)
       IN  /\ IsStringArray(to)
           /\ Len(to.xs) = Len(from)
           /\ \A i \in 1..Len(from) :
                to.xs[i].s = updateSourceMapPath(from[i].s, sourcesRootPath, cwd, platform)

\* C5: a successfully normalized output has no `sourcesContent`, an empty
\* `sourceRoot`, the supplied script path as `file`, and as many `sources` as
\* the input, each the rewritten form of the input entry at its position.
C5_NormalizedFields ==
    (Normalized /\ ~Unprocessable(sourceMapBody))
    => LET out == JSONparse(normalized.v)
       IN  out.ok /\ NormalizedFrom(InputMap, out.val)

\* a document with inlined contents, a source root and two different sources
C5_Witness ==
    /\ pc = "normalized"
    /\ platform = "win32"
    /\ ~Unprocessable(sourceMapBody)
    /\ LET in == InputMap
           out == OutputMap
       IN  /\ HasKey(in.ms, KeySourcesContent)
           /\ Get(in, KeySourceRoot) # Str(<<>>)
           /\ Get(in, KeyFile) # Str(scriptPath)
           /\ Len(Get(in, KeySources).xs) = 2
           /\ Get(out, KeySources).xs[1] # Get(out, KeySources).xs[2]
           /\ NormalizedFrom(in, out)

\* the segments of an absolute path: empty and `.` segments dropped, a `..`
\* taking the segment before it
RECURSIVE Canonical(_, _)
Canonical(segs, kept) ==
    IF segs = <<>> THEN kept
    ELSE Canonical(Tail(segs),
                   IF Head(segs) \in {<<>>, Dot} THEN kept
                   ELSE IF Head(segs) = DotDot
                        THEN (IF kept = <<>> THEN kept ELSE SubSeq(kept, 1, Len(kept) - 1))
                        ELSE Append(kept, Head(segs)))

SegmentsOf(path) == Canonical(SplitOn(path, Seps(platform)), <<>>)

\* how many leading segments a and b share
CommonLength(a, b) ==
    Max({ n \in 0..Len(a) : n <= Len(b) /\ SubSeq(a, 1, n) = SubSeq(b, 1, n) })

\* one `..` per root segment below the common ancestor, then the entry's
\* remaining segments, joined with forward slashes
ExpectedRelative(root, entry) ==
    LET r == SegmentsOf(root)
        e == SegmentsOf(entry)
        n == CommonLength(r, e)
    IN  JoinWith([i \in 1..(Len(r) - n) |-> DotDot] \o Slice(e, n + 1, Len(e)), <<"/">>)

Absolute(path) == path # <<>> /\ path[1] \in Seps(platform)

\* what C6 says of an input entry and the output entry at its place (the
\* root itself, which has no segment left, is written `.`)
RelativeTo(root, entry, out) ==
    /\ out = IF SegmentsOf(entry) = SegmentsOf(root) THEN Dot
             ELSE ExpectedRelative(root, entry)
    /\ Sep(platform) # "/" => ~Has(out, Sep(platform))

SameGoverned(a, b) ==
    /\ Get(a, KeySources) = Get(b, KeySources)
    /\ Get(a, KeySourceRoot) = Get(b, KeySourceRoot)
    /\ Get(a, KeyFile) = Get(b, KeyFile)

\* C4 as stated: normalizing the output of a successful normalization again,
\* with the same script path and root, yields the same `sources`,
\* `sourceRoot` and `file`.
C4_Idempotent ==
    (pc = "renormalized" /\ ~Unprocessable(sourceMapBody))
    => SameGoverned(OutputMapAgain, OutputMap)

\* C4 amended: it yields the same `sourceRoot` and `file`, and the same
\* `sources` when the working directory of the process is the root directory
\* (the relative entries of the first output are resolved against the working
\* directory, not against the root).
C4_IdempotentWhenCwdIsRoot ==
    (pc = "renormalized" /\ ~Unprocessable(sourceMapBody))
    => LET first == OutputMap
           again == OutputMapAgain
       IN  /\ ~Unprocessable(normalized.v)
           /\ Get(again, KeySourceRoot) = Get(first, KeySourceRoot)
           /\ Get(again, KeyFile) = Get(first, KeyFile)
           /\ (Absolute(sourcesRootPath) /\ SegmentsOf(cwd) = SegmentsOf(sourcesRootPath))
              => Get(again, KeySources) = Get(first, KeySources)

\* renormalized in the root directory: entries with and without `..`
C4_Witness ==
    /\ pc = "renormalized"
    /\ ~Unprocessable(sourceMapBody)
    /\ SegmentsOf(cwd) = SegmentsOf(sourcesRootPath)
    /\ LET first == OutputMap
       IN  /\ Len(Get(first, KeySources).xs) = 2
           /\ Get(first, KeySources).xs[1].s = <<"a", "/", "i">>
           /\ Get(first, KeySources).xs[2].s = <<".", ".", "/", ".", ".", "/", "o", "/", "l">>
           /\ SameGoverned(OutputMapAgain, first)

====
